---- MODULE Spec2Model ----
(***************************************************************************)
(* Model of the satellite tracker (src/src/components/SatelliteTracker.jsx, *)
(* src/src/services/spaceTrackService.js, src/src/utils/tleData.js)        *)
(*                                                                         *)
(*   SpecVis   calculateVisibility applied to inputs drawn from a grid     *)
(*   SpecPass  one predictPasses scan, one loop iteration per step         *)
(*   SpecTick  the component's position-update loop and SatelliteWorker    *)
(*   SpecTrack one calculateGroundTrack scan                               *)
(*   SpecLoad  loadSatellites: parseSpaceTrackData and the catalog filter  *)
(*   SpecImport parseTLEText (src/src/utils/tleData.js)                    *)
(*   SpecEpoch parseTLEEpoch applied to one line                           *)
(*                                                                         *)
(* JavaScript numbers are tagged records: a finite number, NaN, or the     *)
(* value undefined (a missing argument or field).  Angles are whole        *)
(* degrees; latitudes and longitudes are multiples of 90 degrees, where    *)
(* sine and cosine are exact.                                              *)
(***************************************************************************)
EXTENDS Integers, Sequences, FiniteSets, TLC

VARIABLES
    \* calculateVisibility call
    visArgs, visResult,
    \* predictPasses scan
    ppArgs, ppI, inPass, currentPass, passes, ppResult, ephemeris,
    \* component state, timers and worker
    satellites, isTracking, updateInterval, positions,
    tickTimer, workerTimers, messageId, loadsDone,
    \* what the worker's last run was given and how many messages it delivered
    workerLog, delivered,
    \* the worker's message handler is set (the component is mounted)
    onmessage,
    \* the selection, the observer and what is computed for them
    selectedSatellite, observerLocation, showGroundTrack,
    groundTrack, currentVisibility, upcomingPasses,
        \* the event handled last, what it invoked of the visibility and pass
    \* computations, and how the last
    \* ground-track scan and the last pass scan ended
    trigger, invoked, trackScan, passScan,
    \* calculateGroundTrack scan
    gtArgs, gtI, gtPoints, gtResult, gtSamples,
    \* loadSatellites: the last response, the satellites it stored in full,
    \* its console line, the error state, the browser's time zone
    fetched, catalog, loadLog, loadError, timeZone,
    \* parseTLEText and parseTLEEpoch calls
    tleText, imported, epochArgs, epochResult,
    \* getOrbitType call
    orbitArgs, orbitResult,
    \* authentication, the data source, the loadSatellites calls in flight,
    \* which of them filled the catalog, the age of lastTleUpdate, and the
    \* Space-Track requests sent in the current minute
    isAuthenticated, isLoading, error, dataSource, selectedCategory,
    newestLoad, olderLoads, satellitesFrom, hoursSinceUpdate,
    requestsThisMinute, loadEvent

visVars == <<visArgs, visResult>>
passVars == <<ppArgs, ppI, inPass, currentPass, passes, ppResult, ephemeris>>
tickVars == <<satellites, isTracking, updateInterval, positions,
              tickTimer, workerTimers, messageId, loadsDone,
              workerLog, delivered, onmessage>>
selVars == <<selectedSatellite, observerLocation, showGroundTrack,
             groundTrack, currentVisibility, upcomingPasses,
             trigger, invoked, trackScan, passScan>>
trackVars == <<gtArgs, gtI, gtPoints, gtResult, gtSamples>>
loadVars == <<fetched, catalog, loadLog, loadError, timeZone>>
importVars == <<tleText, imported>>
epochVars == <<epochArgs, epochResult>>
ingestVars == <<loadVars, importVars, epochVars>>
orbitVars == <<orbitArgs, orbitResult>>
reloadVars == <<isAuthenticated, isLoading, error, dataSource,
                selectedCategory, newestLoad, olderLoads, satellitesFrom,
                hoursSinceUpdate, requestsThisMinute, loadEvent>>
vars == <<visVars, passVars, tickVars, selVars, trackVars, ingestVars,
         orbitVars, reloadVars>>

\* what the steps of one specification leave alone
exceptVis == <<passVars, tickVars, selVars, trackVars, ingestVars, orbitVars, reloadVars>>
exceptPass == <<visVars, tickVars, selVars, trackVars, ingestVars, orbitVars, reloadVars>>
exceptComponent == <<visVars, passVars, trackVars, ingestVars, orbitVars, reloadVars>>
exceptTick == <<selVars, exceptComponent>>
exceptTrack == <<visVars, passVars, tickVars, selVars, ingestVars, orbitVars, reloadVars>>
exceptLoad == <<visVars, passVars, tickVars, selVars, trackVars, importVars,
                epochVars, orbitVars, reloadVars>>
exceptImport == <<visVars, passVars, tickVars, selVars, trackVars, loadVars,
                  epochVars, orbitVars, reloadVars>>
exceptEpoch == <<visVars, passVars, tickVars, selVars, trackVars, loadVars,
                 importVars, orbitVars, reloadVars>>
exceptOrbit == <<visVars, passVars, tickVars, selVars, trackVars, ingestVars,
                 reloadVars>>
exceptReload == <<visVars, passVars, tickVars, selVars, trackVars, ingestVars,
                  orbitVars>>

----------------------------------------------------------------------------
(* JavaScript values *)

Num(n) == [t |-> "num", v |-> n]
NaN == [t |-> "nan", v |-> 0]
Undefined == [t |-> "undef", v |-> 0]
Null == [t |-> "null", v |-> 0]

\* the global isFinite(x): undefined coerces to NaN
isFinite(x) == x.t = "num"

\* a > b and a < b on numbers: false when either side is NaN
JsGt(a, b) == a.t = "num" /\ b.t = "num" /\ a.v > b.v
JsLt(a, b) == a.t = "num" /\ b.t = "num" /\ a.v < b.v

\* a default parameter value applies when the argument is undefined
DefaultArg(x, d) == IF x.t = "undef" THEN d ELSE x

----------------------------------------------------------------------------
(* Math.cos, Math.sin, Math.sqrt, Math.atan2 on the model's grid *)

\* cos and sin of an angle given in degrees, a multiple of 90
CosDeg(d) == CASE d % 360 = 0 -> 1
               [] d % 360 = 90 -> 0
               [] d % 360 = 180 -> -1
               [] d % 360 = 270 -> 0

SinDeg(d) == CASE d % 360 = 0 -> 0
               [] d % 360 = 90 -> 1
               [] d % 360 = 180 -> 0
               [] d % 360 = 270 -> -1

RECURSIVE SqrtSearch(_, _, _)
SqrtSearch(n, lo, hi) ==
    IF lo >= hi THEN lo
    ELSE LET mid == (lo + hi + 1) \div 2
         IN IF mid * mid <= n THEN SqrtSearch(n, mid, hi)
                              ELSE SqrtSearch(n, lo, mid - 1)

\* Math.sqrt, rounded down to a whole number
Sqrt(n) == SqrtSearch(n, 0, IF n < 46340 THEN n ELSE 46340)

\* 1000 * tan(d degrees) for d = 0..89, at index d + 1
TanMilli ==
    << 0, 17, 35, 52, 70, 87, 105, 123, 141, 158, 176, 194, 213, 231, 249,
       268, 287, 306, 325, 344, 364, 384, 404, 424, 445, 466, 488, 510, 532,
       554, 577, 601, 625, 649, 675, 700, 727, 754, 781, 810, 839, 869, 900,
       933, 966, 1000, 1036, 1072, 1111, 1150, 1192, 1235, 1280, 1327, 1376,
       1428, 1483, 1540, 1600, 1664, 1732, 1804, 1881, 1963, 2050, 2145,
       2246, 2356, 2475, 2605, 2747, 2904, 3078, 3271, 3487, 3732, 4011,
       4331, 4705, 5145, 5671, 6314, 7115, 8144, 9514, 11430, 14301, 19081,
       28636, 57290 >>

RECURSIVE AtanSearch(_, _, _, _)
AtanSearch(y, x, lo, hi) ==
    IF lo >= hi THEN lo
    ELSE LET mid == (lo + hi + 1) \div 2
         IN IF TanMilli[mid + 1] * x <= y * 1000
               THEN AtanSearch(y, x, mid, hi)
               ELSE AtanSearch(y, x, lo, mid - 1)

\* atan(y / x) in whole degrees for x > 0, y >= 0, rounded down
AtanDeg(y, x) == AtanSearch(y, x, 0, 89)

\* Math.atan2(y, x) * 180 / Math.PI in whole degrees, in -180..180
Atan2Deg(y, x) ==
    CASE x > 0 /\ y >= 0 -> AtanDeg(y, x)
      [] x > 0 /\ y < 0 -> -AtanDeg(-y, x)
      [] x = 0 /\ y > 0 -> 90
      [] x = 0 /\ y < 0 -> -90
      [] x = 0 /\ y = 0 -> 0
      [] x < 0 /\ y >= 0 -> 180 - AtanDeg(y, -x)
      [] x < 0 /\ y < 0 -> AtanDeg(-y, -x) - 180

----------------------------------------------------------------------------
(* calculateVisibility *)

earthRadius == 6371

\* a variant that counts the horizon itself as visible
IsVisibleAtHorizon(elevation) ==
    elevation.t = "num" /\ elevation.v >= 0

\* if satellite is above horizon
IsVisible(elevation) == JsGt(elevation, Num(0))

\* the result returned when an input is rejected
InvalidVisibility ==
    [range |-> Num(0), elevation |-> Num(-90), azimuth |-> Num(0),
     isVisible |-> FALSE]

\* satPos is Null or a record of latitude, longitude, altitude
ValidSatPos(satPos) ==
    /\ satPos # Null
    /\ isFinite(satPos.latitude)
    /\ isFinite(satPos.longitude)
    /\ isFinite(satPos.altitude)

ValidObserver(observerLat, observerLon) ==
    isFinite(observerLat) /\ isFinite(observerLon)

\* the geometry, for finite inputs; observerAlt is in metres, a multiple
\* of 1000
VisibilityGeometry(satPos, observerLat, observerLon, observerAlt) ==
    LET obsR == earthRadius + observerAlt \div 1000
        obsX == obsR * CosDeg(observerLat) * CosDeg(observerLon)
        obsY == obsR * CosDeg(observerLat) * SinDeg(observerLon)
        obsZ == obsR * SinDeg(observerLat)
        satRadius == earthRadius + satPos.altitude.v
        satX == satRadius * CosDeg(satPos.latitude.v) * CosDeg(satPos.longitude.v)
        satY == satRadius * CosDeg(satPos.latitude.v) * SinDeg(satPos.longitude.v)
        satZ == satRadius * SinDeg(satPos.latitude.v)
        dx == satX - obsX
        dy == satY - obsY
        dz == satZ - obsZ
        range == Sqrt(dx * dx + dy * dy + dz * dz)
        rangeHorizontal == Sqrt(dx * dx + dy * dy)
        elevation == Atan2Deg(dz, rangeHorizontal)
        azimuth == (Atan2Deg(dy, dx) + 360) % 360
    IN [range |-> Num(range), elevation |-> Num(elevation),
        azimuth |-> Num(azimuth), isVisible |-> IsVisible(Num(elevation))]

\* every quantity derived from a NaN observer altitude is NaN
NaNVisibility ==
    [range |-> NaN, elevation |-> NaN, azimuth |-> NaN,
     isVisible |-> IsVisible(NaN)]

calculateVisibility(satPos, observerLat, observerLon, observerAltArg) ==
    LET observerAlt == DefaultArg(observerAltArg, Num(0))
    IN IF ~ValidSatPos(satPos) THEN InvalidVisibility
       ELSE IF ~ValidObserver(observerLat, observerLon) THEN InvalidVisibility
       ELSE IF observerAlt.t = "nan" THEN NaNVisibility
       ELSE VisibilityGeometry(satPos, observerLat.v, observerLon.v,
                               observerAlt.v)

----------------------------------------------------------------------------
(* predictPasses *)

MaxScanMinutes == 5

MsPerMinute == 60000

DefaultMinElevation == 10

\* what satellite.propagate and satellite.eciToGeodetic give for one
\* minute: ok is (posVel.position && !posVel.position.error)
PropagateFailed ==
    [ok |-> FALSE, latitude |-> NaN, longitude |-> NaN, altitude |-> NaN]

Sample(lat, lon, alt) ==
    [ok |-> TRUE, latitude |-> lat, longitude |-> lon, altitude |-> alt]

SampleFinite(s) ==
    isFinite(s.latitude) /\ isFinite(s.longitude) /\ isFinite(s.altitude)

\* new Date(startTime.getTime() + i * 60000), in milliseconds
SampleTime(startTime, i) == startTime + i * MsPerMinute

\* the scan's local state
ScanState(ip, cp, ps) == [inPass |-> ip, currentPass |-> cp, passes |-> ps]

\* detect pass start
DetectStart(st, visibility, time, minElevation) ==
    IF ~st.inPass /\ JsGt(visibility.elevation, minElevation)
    THEN [st EXCEPT !.inPass = TRUE,
                    !.currentPass = [startTime |-> time,
                                     maxElevation |-> visibility.elevation,
                                     maxElevationTime |-> time,
                                     startAzimuth |-> visibility.azimuth]]
    ELSE st

\* a variant that also moves the maximum on a tie
UpdateMaxOnTie(st, visibility, time) ==
    IF st.inPass /\ ~JsLt(visibility.elevation, st.currentPass.maxElevation)
    THEN [st EXCEPT !.currentPass =
            [@ EXCEPT !.maxElevation = visibility.elevation,
                      !.maxElevationTime = time]]
    ELSE st

\* update max elevation during pass
UpdateMax(st, visibility, time) ==
    IF st.inPass /\ JsGt(visibility.elevation, st.currentPass.maxElevation)
    THEN [st EXCEPT !.currentPass =
            [@ EXCEPT !.maxElevation = visibility.elevation,
                      !.maxElevationTime = time]]
    ELSE st

\* a variant that appends the pass but forgets to leave it
DetectEndStayInPass(st, visibility, time, minElevation) ==
    IF st.inPass /\ JsLt(visibility.elevation, minElevation)
    THEN LET cp == st.currentPass
             closed == [startTime |-> cp.startTime,
                        maxElevation |-> cp.maxElevation,
                        maxElevationTime |-> cp.maxElevationTime,
                        startAzimuth |-> cp.startAzimuth,
                        endTime |-> time,
                        endAzimuth |-> visibility.azimuth,
                        duration |-> (time - cp.startTime) \div MsPerMinute]
         IN ScanState(TRUE, cp, Append(st.passes, closed))
    ELSE st

\* detect pass end
DetectEnd(st, visibility, time, minElevation) ==
    IF st.inPass /\ JsLt(visibility.elevation, minElevation)
    THEN LET cp == st.currentPass
             closed == [startTime |-> cp.startTime,
                        maxElevation |-> cp.maxElevation,
                        maxElevationTime |-> cp.maxElevationTime,
                        startAzimuth |-> cp.startAzimuth,
                        endTime |-> time,
                        endAzimuth |-> visibility.azimuth,
                        duration |-> (time - cp.startTime) \div MsPerMinute]
         IN ScanState(FALSE, Null, Append(st.passes, closed))
    ELSE st

\* posVel.position is read from a null posVel: a TypeError leaves the scan
ScanThrows(s) == s = Null

\* the body of the scan loop for one minute
ScanSample(st, s, time, observerLat, observerLon, minElevation) ==
    IF s.ok
    THEN IF ~SampleFinite(s)
         THEN st
         ELSE LET satPos == [latitude |-> s.latitude,
                             longitude |-> s.longitude,
                             altitude |-> s.altitude]
                  visibility == calculateVisibility(satPos, observerLat,
                                                    observerLon, Undefined)
              IN DetectEnd(
                   UpdateMax(
                     DetectStart(st, visibility, time, minElevation),
                     visibility, time),
                   visibility, time, minElevation)
    ELSE st

\* a variant that reports the pass still open at the end of the scan
ScanResultKeepOpen(st) ==
    IF st.inPass THEN Append(st.passes, st.currentPass) ELSE st.passes

\* return passes
ScanResult(st) == st.passes

----------------------------------------------------------------------------
(* the position-update loop: tick effect, SatelliteWorker, catalog loads *)

MaxPosts == 3

MaxLoads == 2

InitialUpdateInterval == 1000

TleLength == 69

\* the range input of the settings panel: 500..5000 in steps of 500
UpdateIntervals == {500, 1000, 1500}

SatIds == {1, 2}

\* a catalog is one array object: gen is its identity, ids its objects
Catalog(gen, ids) == [gen |-> gen, ids |-> ids]

\* SatelliteWorker.postMessage: the batch waits in a zero-delay timer
PostMessage(timers, id, data) ==
    Append(timers, [id |-> id, satellites |-> data])

\* updatePositions: post the batch, arm the next tick
UpdatePositions(sats, timers, mid) ==
    [tickTimer |-> TRUE,
     workerTimers |-> PostMessage(timers, mid, sats),
     messageId |-> mid + 1]

\* the tick effect after a change of isTracking, satellites or
\* updateInterval: the cleanup clears the pending tick, then the effect
\* body runs
TickEffect(tracking, sats, timers, mid) ==
    IF ~tracking \/ sats.ids = {}
    THEN [tickTimer |-> FALSE, workerTimers |-> timers, messageId |-> mid]
    ELSE UpdatePositions(sats, timers, mid)

\* an object of the catalog: both lines passed the length test of the load
CatalogObject(id) == [id |-> id, tle1 |-> TleLength, tle2 |-> TleLength]

\* what satellite.js does for one object of a batch: twoline2satrec flags an
\* error, a call throws, or propagate hands back null, a result without a
\* usable position, or a position
WorkerOutcomes ==
    {[satrecError |-> TRUE, throws |-> FALSE, posVel |-> Null],
     [satrecError |-> FALSE, throws |-> TRUE, posVel |-> Null]}
    \cup {[satrecError |-> FALSE, throws |-> FALSE, posVel |-> s] :
             s \in {Null, PropagateFailed,
                    Sample(NaN, Num(0), Num(400)),
                    Sample(Num(0), Num(90), Num(400))}}

\* the callback of satellites.map: the position record of one object, or null
WorkerPosition(sat, o) ==
    IF sat.tle1 # TleLength \/ sat.tle2 # TleLength THEN Null
    ELSE IF o.satrecError THEN Null
    ELSE IF o.throws THEN Null
    ELSE IF o.posVel # Null /\ o.posVel.ok
         THEN [id |-> sat.id, latitude |-> o.posVel.latitude,
               longitude |-> o.posVel.longitude,
               altitude |-> o.posVel.altitude]
         ELSE Null

\* a variant in which one failed object empties the whole batch
WorkerBatchAbort(ids, out) ==
    IF \E id \in ids : WorkerPosition(CatalogObject(id), out[id]) = Null
    THEN [id \in {} |-> Null]
    ELSE [id \in ids |-> WorkerPosition(CatalogObject(id), out[id])]

\* satellites.map(...).filter(Boolean), keyed by object id
WorkerBatch(ids, out) ==
    LET good == {id \in ids :
                   WorkerPosition(CatalogObject(id), out[id]) # Null}
    IN [id \in good |-> WorkerPosition(CatalogObject(id), out[id])]

\* workerRef.current.onmessage: posMap replaces positions
OnMessage(batch, newPositions) ==
    [from |-> batch.satellites.gen, ids |-> DOMAIN newPositions,
     pos |-> newPositions]

ApplyEffect(e) ==
    /\ tickTimer' = e.tickTimer
    /\ workerTimers' = e.workerTimers
    /\ messageId' = e.messageId

\* a variant of the handler call that ignores terminate()
DeliverAlways(handler, old, message) == message

\* if (this.onmessage) this.onmessage({ data: { positions } })
Deliver(handler, old, message) == IF handler THEN message ELSE old

\* how a scan run by an effect ends: twoline2satrec flags an error, the scan
\* throws, or it returns an empty or a non-empty sequence
ScanOutcomes == {"satrecError", "threw", "empty", "found"}

\* an object of the catalog array of generation gen
CatalogEntry(gen, id) == [gen |-> gen, id |-> id]

HasBothLines(sel) ==
    CatalogObject(sel.id).tle1 > 0 /\ CatalogObject(sel.id).tle2 > 0

\* updateGroundTrack: the track it stores and how the scan ended
updateGroundTrack(sel, o) ==
    IF ~HasBothLines(sel) \/ o \in {"satrecError", "threw"}
    THEN [track |-> <<>>, scan |-> "failed"]
    ELSE [track |-> IF o = "found" THEN <<[of |-> sel]>> ELSE <<>>,
          scan |-> "ok"]

\* the ground-track effect (deps: selectedSatellite, showGroundTrack)
GroundTrackEffect(sel, show, o) ==
    IF sel = Null \/ ~show
    THEN [track |-> <<>>, scan |-> "none"]
    ELSE updateGroundTrack(sel, o)

\* the visibility effect (deps: selectedSatellite, positions,
\* observerLocation)
VisibilityRuns(sel, pos, obs) ==
    sel # Null /\ sel.id \in pos.ids /\ obs # Null

VisibilityEffect(sel, pos, obs) ==
    IF VisibilityRuns(sel, pos, obs)
    THEN calculateVisibility(pos.pos[sel.id], obs.lat, obs.lon, Undefined)
    ELSE Null

VisibilityInvoked(sel, pos, obs) ==
    IF VisibilityRuns(sel, pos, obs) THEN {"calculateVisibility"} ELSE {}

\* a variant of the pass effect that does not look at the observer
PassEffectUngated(sel, obs, o) ==
    IF sel # Null
    THEN [passes |-> <<[of |-> sel]>>, scan |-> "ok",
          invoked |-> {"predictPasses"}]
    ELSE [passes |-> <<>>, scan |-> "none", invoked |-> {}]

\* the pass effect (deps: selectedSatellite, observerLocation)
PassEffect(sel, obs, o) ==
    IF sel # Null /\ obs # Null
    THEN IF ~HasBothLines(sel)
         THEN [passes |-> <<>>, scan |-> "failed", invoked |-> {}]
         ELSE IF o = "satrecError"
         THEN [passes |-> <<>>, scan |-> "failed",
               invoked |-> {"twoline2satrec"}]
         ELSE IF o = "threw"
         THEN [passes |-> <<>>, scan |-> "failed",
               invoked |-> {"twoline2satrec", "predictPasses"}]
         ELSE [passes |-> IF o = "found" THEN <<[of |-> sel]>> ELSE <<>>,
               scan |-> "ok",
               invoked |-> {"twoline2satrec", "predictPasses"}]
    ELSE [passes |-> <<>>, scan |-> "none", invoked |-> {}]

\* the scans an effect run can make: none when its guard fails
TrackOutcomes(sel, show) ==
    IF sel = Null \/ ~show THEN {"none"} ELSE ScanOutcomes

PassOutcomes(sel, obs) ==
    IF sel # Null /\ obs # Null THEN ScanOutcomes ELSE {"none"}

ApplyGroundTrack(g) ==
    /\ groundTrack' = g.track
    /\ trackScan' = g.scan

ApplyPasses(p) ==
    /\ upcomingPasses' = p.passes
    /\ passScan' = p.scan

\* the tick timer fires: timers run in order of their delay, so every
\* zero-delay worker timer set before it has already run
TimerTick ==
    /\ onmessage
    /\ tickTimer
    /\ workerTimers = <<>>
    /\ messageId < MaxPosts
    /\ ApplyEffect(UpdatePositions(satellites, workerTimers, messageId))
    /\ UNCHANGED <<satellites, isTracking, updateInterval, positions, loadsDone,
                   workerLog, delivered, onmessage>>
    /\ UNCHANGED exceptTick

\* the worker's deferred computation runs: objects that fail to propagate
\* are filtered out, the rest are delivered to onmessage if it is still set;
\* new positions re-run the visibility effect
WorkerRun ==
    /\ workerTimers # <<>>
    /\ LET batch == Head(workerTimers)
       IN \E out \in [batch.satellites.ids -> WorkerOutcomes] :
             /\ positions' = Deliver(onmessage, positions,
                                 OnMessage(batch,
                                     WorkerBatch(batch.satellites.ids, out)))
             /\ workerLog' = [id |-> batch.id, ids |-> batch.satellites.ids,
                              outcome |-> out]
    /\ delivered' = IF onmessage THEN delivered + 1 ELSE delivered
    /\ workerTimers' = Tail(workerTimers)
    /\ IF onmessage
       THEN /\ currentVisibility' =
                  VisibilityEffect(selectedSatellite, positions',
                                   observerLocation)
            /\ invoked' = VisibilityInvoked(selectedSatellite, positions',
                                            observerLocation)
            /\ trigger' = "positions"
       ELSE UNCHANGED <<currentVisibility, invoked, trigger>>
    /\ UNCHANGED <<satellites, isTracking, updateInterval, tickTimer,
                   messageId, loadsDone, onmessage>>
    /\ UNCHANGED <<selectedSatellite, observerLocation, showGroundTrack,
                   groundTrack, upcomingPasses, trackScan, passScan>>
    /\ UNCHANGED exceptComponent

\* the Tracking Active / Tracking Paused button
ToggleTracking ==
    /\ onmessage
    /\ messageId < MaxPosts
    /\ isTracking' = ~isTracking
    /\ ApplyEffect(TickEffect(~isTracking, satellites, workerTimers, messageId))
    /\ UNCHANGED <<satellites, updateInterval, positions, loadsDone,
                   workerLog, delivered, onmessage>>
    /\ UNCHANGED exceptTick

\* the Update Interval slider
SetUpdateInterval ==
    /\ onmessage
    /\ messageId < MaxPosts
    /\ \E v \in UpdateIntervals \ {updateInterval} :
          updateInterval' = v
    /\ ApplyEffect(TickEffect(isTracking, satellites, workerTimers, messageId))
    /\ UNCHANGED <<satellites, isTracking, positions, loadsDone,
                   workerLog, delivered, onmessage>>
    /\ UNCHANGED exceptTick

\* loadSatellites settles with a new array of valid satellites
LoadSatellites ==
    /\ onmessage
    /\ messageId < MaxPosts
    /\ loadsDone < MaxLoads
    /\ loadsDone' = loadsDone + 1
    /\ \E ids \in SUBSET SatIds :
          /\ satellites' = Catalog(satellites.gen + 1, ids)
          /\ ApplyEffect(TickEffect(isTracking, satellites', workerTimers,
                                    messageId))
    /\ UNCHANGED <<isTracking, updateInterval, positions, workerLog, delivered,
                   onmessage>>
    /\ UNCHANGED exceptTick

\* the component unmounts: the tick effect's cleanup clears the pending tick
\* and the worker effect's cleanup calls terminate()
Unmount ==
    /\ onmessage
    /\ onmessage' = FALSE
    /\ tickTimer' = FALSE
    /\ UNCHANGED <<satellites, isTracking, updateInterval, positions,
                   workerTimers, messageId, loadsDone, workerLog, delivered>>
    /\ UNCHANGED exceptTick

\* the geolocation callback's argument
Observers == {[lat |-> Num(0), lon |-> Num(0)],
              [lat |-> Num(90), lon |-> Num(0)]}

\* the effects that depend on selectedSatellite run with the new selection
SelectionEffects(sel) ==
    \E og \in TrackOutcomes(sel, showGroundTrack),
       op \in PassOutcomes(sel, observerLocation) :
       LET g == GroundTrackEffect(sel, showGroundTrack, og)
           p == PassEffect(sel, observerLocation, op)
       IN /\ ApplyGroundTrack(g)
          /\ currentVisibility' =
                VisibilityEffect(sel, positions, observerLocation)
          /\ ApplyPasses(p)
          /\ invoked' = p.invoked \cup
                VisibilityInvoked(sel, positions, observerLocation)

\* onClick of a row of the satellite list: setSelectedSatellite(sat)
SelectSatellite ==
    /\ onmessage
    /\ \E id \in satellites.ids :
          /\ CatalogEntry(satellites.gen, id) # selectedSatellite
          /\ selectedSatellite' = CatalogEntry(satellites.gen, id)
          /\ SelectionEffects(selectedSatellite')
    /\ trigger' = "select"
    /\ UNCHANGED <<observerLocation, showGroundTrack>>
    /\ UNCHANGED <<tickVars, exceptComponent>>

\* the close button of the details panel: setSelectedSatellite(null)
Deselect ==
    /\ onmessage
    /\ selectedSatellite # Null
    /\ selectedSatellite' = Null
    /\ SelectionEffects(Null)
    /\ trigger' = "select"
    /\ UNCHANGED <<observerLocation, showGroundTrack>>
    /\ UNCHANGED <<tickVars, exceptComponent>>

\* getUserLocation succeeds: setObserverLocation({lat, lon, name}); the
\* visibility and pass effects run
SetObserverLocation ==
    /\ onmessage
    /\ \E obs \in Observers \ {observerLocation} :
       \E op \in PassOutcomes(selectedSatellite, obs) :
          LET p == PassEffect(selectedSatellite, obs, op)
          IN /\ observerLocation' = obs
             /\ currentVisibility' =
                   VisibilityEffect(selectedSatellite, positions, obs)
             /\ ApplyPasses(p)
             /\ invoked' = p.invoked \cup
                   VisibilityInvoked(selectedSatellite, positions, obs)
    /\ trigger' = "location"
    /\ UNCHANGED <<selectedSatellite, showGroundTrack, groundTrack, trackScan>>
    /\ UNCHANGED <<tickVars, exceptComponent>>

\* the settings checkbox: setShowGroundTrack(e.target.checked)
ToggleGroundTrack ==
    /\ onmessage
    /\ showGroundTrack' = ~showGroundTrack
    /\ \E og \in TrackOutcomes(selectedSatellite, showGroundTrack') :
          LET g == GroundTrackEffect(selectedSatellite, showGroundTrack', og)
          IN /\ ApplyGroundTrack(g)
             /\ invoked' = {}
    /\ trigger' = "toggle"
    /\ UNCHANGED <<selectedSatellite, observerLocation, currentVisibility,
                   upcomingPasses, passScan>>
    /\ UNCHANGED <<tickVars, exceptComponent>>

\* setInterval(updateGroundTrack, 5000) fires: it exists while a satellite
\* is selected and the ground track is shown
GroundTrackInterval ==
    /\ onmessage
    /\ selectedSatellite # Null
    /\ showGroundTrack
    /\ \E og \in ScanOutcomes :
          LET g == GroundTrackEffect(selectedSatellite, showGroundTrack, og)
          IN /\ ApplyGroundTrack(g)
             /\ invoked' = {}
    /\ trigger' = "refresh"
    /\ UNCHANGED <<selectedSatellite, observerLocation, showGroundTrack,
                   currentVisibility, upcomingPasses, passScan>>
    /\ UNCHANGED <<tickVars, exceptComponent>>

InitSelection ==
    /\ selectedSatellite = Null
    /\ observerLocation = Null
    /\ showGroundTrack = TRUE
    /\ groundTrack = <<>>
    /\ currentVisibility = Null
    /\ upcomingPasses = <<>>
    /\ trigger = "mount"
    /\ invoked = {}
    /\ trackScan = "none"
    /\ passScan = "none"

InitTick ==
    /\ InitSelection
    /\ onmessage = TRUE
    /\ satellites = Catalog(0, {})
    /\ isTracking = TRUE
    /\ updateInterval = InitialUpdateInterval
    /\ positions = [from |-> 0, ids |-> {}, pos |-> [id \in {} |-> Null]]
    /\ workerLog = Null
    /\ delivered = 0
    /\ tickTimer = FALSE
    /\ workerTimers = <<>>
    /\ messageId = 0
    /\ loadsDone = 0

----------------------------------------------------------------------------
(* authentication, reloads and the Space-Track request count *)

\* README, Rate Limits: 30 requests per minute
RateLimitPerMinute == 30

\* hoursSinceUpdate > 24 in the hourly check
StaleHours == 24

MaxInFlight == 2

MaxAgeHours == 25

DataSources == {"popular", "category", "all"}

CategoryChoices == {"station", "starlink"}

InitialDataSource == "popular"

InitialCategory == "starlink"

\* the argument of setError
Message(k) == [t |-> "message", k |-> k]

\* loadSatellites calls that have not settled
InFlight == (IF newestLoad = "pending" THEN 1 ELSE 0) + olderLoads

InFlightLoads ==
    (IF newestLoad = "pending" THEN {"newest"} ELSE {})
    \cup (IF olderLoads > 0 THEN {"older"} ELSE {})

\* what a settling loadSatellites call reads and writes
LoadState ==
    [satellites |-> satellitesFrom, lastTleUpdate |-> hoursSinceUpdate,
     error |-> error, isLoading |-> isLoading]

\* a variant of the catch branch that also empties the catalog
LoadFailureClearing(st) ==
    [st EXCEPT !.satellites = "none", !.error = Message("load"),
               !.isLoading = FALSE]

\* catch { setError(...) } finally { setIsLoading(false) }
LoadFailure(st) ==
    [st EXCEPT !.error = Message("load"), !.isLoading = FALSE]

\* setSatellites(validSatellites); setLastTleUpdate(new Date());
\* finally { setIsLoading(false) }
LoadSuccess(st, which) ==
    [st EXCEPT !.satellites = which, !.lastTleUpdate = 0,
               !.isLoading = FALSE]

ApplyLoadState(st) ==
    /\ satellitesFrom' = st.satellites
    /\ hoursSinceUpdate' = st.lastTleUpdate
    /\ error' = st.error
    /\ isLoading' = st.isLoading

\* the call that settles is no longer in flight
Settle(which) ==
    IF which = "newest"
    THEN /\ newestLoad' = IF loadEvent' = "succeeded" THEN "ok" ELSE "failed"
         /\ UNCHANGED olderLoads
    ELSE /\ olderLoads' = olderLoads - 1
         /\ UNCHANGED newestLoad

CanStartLoad ==
    /\ InFlight < MaxInFlight
    /\ requestsThisMinute <= RateLimitPerMinute

\* loadSatellites up to its await: setIsLoading(true), setError(null) and
\* one request; sent counts the requests of the minute before this one
StartLoad(sent) ==
    /\ isLoading' = TRUE
    /\ error' = Null
    /\ newestLoad' = "pending"
    /\ olderLoads' = InFlight
    /\ satellitesFrom' = IF satellitesFrom = "newest" THEN "older"
                                                       ELSE satellitesFrom
    /\ requestsThisMinute' = sent + 1
    /\ loadEvent' = "start"

\* the reload effect: if (isAuthenticated) loadSatellites()
ReloadEffect ==
    IF isAuthenticated
    THEN StartLoad(requestsThisMinute)
    ELSE /\ loadEvent' = "idle"
         /\ UNCHANGED <<isLoading, error, newestLoad, olderLoads,
                        satellitesFrom, requestsThisMinute>>

\* login succeeds (the POST and the test query), then loadSatellites starts
Login ==
    /\ ~isAuthenticated
    /\ CanStartLoad
    /\ isAuthenticated' = TRUE
    /\ StartLoad(requestsThisMinute + 2)
    /\ UNCHANGED <<dataSource, selectedCategory, hoursSinceUpdate>>
    /\ UNCHANGED exceptReload

\* handleAuthentication when login throws, at the POST or at the test query
LoginFails ==
    /\ ~isAuthenticated
    /\ requestsThisMinute <= RateLimitPerMinute
    /\ \E sent \in {1, 2} : requestsThisMinute' = requestsThisMinute + sent
    /\ error' = Message("auth")
    /\ isLoading' = FALSE
    /\ loadEvent' = "loginFailed"
    /\ UNCHANGED <<isAuthenticated, dataSource, selectedCategory, newestLoad,
                   olderLoads, satellitesFrom, hoursSinceUpdate>>
    /\ UNCHANGED exceptReload

\* the data-source select: setDataSource(e.target.value)
ChangeDataSource ==
    /\ isAuthenticated => CanStartLoad
    /\ \E d \in DataSources \ {dataSource} : dataSource' = d
    /\ ReloadEffect
    /\ UNCHANGED <<isAuthenticated, selectedCategory, hoursSinceUpdate>>
    /\ UNCHANGED exceptReload

\* the category select, shown while dataSource is 'category'
ChangeCategory ==
    /\ dataSource = "category"
    /\ isAuthenticated => CanStartLoad
    /\ \E c \in CategoryChoices \ {selectedCategory} : selectedCategory' = c
    /\ ReloadEffect
    /\ UNCHANGED <<isAuthenticated, dataSource, hoursSinceUpdate>>
    /\ UNCHANGED exceptReload

\* the Refresh TLEs button: refreshTles
RefreshClick ==
    /\ isAuthenticated
    /\ CanStartLoad
    /\ StartLoad(requestsThisMinute)
    /\ UNCHANGED <<isAuthenticated, dataSource, selectedCategory,
                   hoursSinceUpdate>>
    /\ UNCHANGED exceptReload

\* a loadSatellites call in flight settles with a catalog
LoadSucceeds ==
    /\ \E which \in InFlightLoads :
          /\ loadEvent' = "succeeded"
          /\ ApplyLoadState(LoadSuccess(LoadState, which))
          /\ Settle(which)
    /\ UNCHANGED <<isAuthenticated, dataSource, selectedCategory,
                   requestsThisMinute>>
    /\ UNCHANGED exceptReload

\* a loadSatellites call in flight settles by throwing
LoadFails ==
    /\ \E which \in InFlightLoads :
          /\ loadEvent' = "failed"
          /\ ApplyLoadState(LoadFailure(LoadState))
          /\ Settle(which)
    /\ UNCHANGED <<isAuthenticated, dataSource, selectedCategory,
                   requestsThisMinute>>
    /\ UNCHANGED exceptReload

\* a minute ends: the provider's per-minute window starts again
MinutePasses ==
    /\ requestsThisMinute > 0
    /\ requestsThisMinute' = 0
    /\ loadEvent' = "time"
    /\ UNCHANGED <<isAuthenticated, isLoading, error, dataSource,
                   selectedCategory, newestLoad, olderLoads, satellitesFrom,
                   hoursSinceUpdate>>
    /\ UNCHANGED exceptReload

\* an hour ends and the hourly check runs: refreshTles if lastTleUpdate is
\* more than 24 hours old
HourPasses ==
    /\ hoursSinceUpdate < MaxAgeHours
    /\ hoursSinceUpdate' = hoursSinceUpdate + 1
    /\ IF hoursSinceUpdate' > StaleHours /\ isAuthenticated
       THEN /\ InFlight < MaxInFlight
            /\ StartLoad(0)
       ELSE /\ requestsThisMinute' = 0
            /\ loadEvent' = "time"
            /\ UNCHANGED <<isLoading, error, newestLoad, olderLoads,
                           satellitesFrom>>
    /\ UNCHANGED <<isAuthenticated, dataSource, selectedCategory>>
    /\ UNCHANGED exceptReload

InitReload ==
    /\ isAuthenticated = FALSE
    /\ isLoading = FALSE
    /\ error = Null
    /\ dataSource = InitialDataSource
    /\ selectedCategory = InitialCategory
    /\ newestLoad = "none"
    /\ olderLoads = 0
    /\ satellitesFrom = "none"
    /\ hoursSinceUpdate = 0
    /\ requestsThisMinute = 0
    /\ loadEvent = "mount"

----------------------------------------------------------------------------
(* specifications *)

LatGrid == {Num(-90), Num(0), Num(90)}
LonGrid == {Num(-180), Num(-90), Num(0), Num(90), Num(180)}

VisSatPositions ==
    {Null} \cup
    [latitude : LatGrid \cup {NaN, Undefined},
     longitude : LonGrid \cup {NaN},
     altitude : {Num(0), Num(400), NaN}]

VisInputs ==
    [satPos : VisSatPositions,
     observerLat : LatGrid \cup {NaN},
     observerLon : LonGrid \cup {NaN},
     observerAlt : {Undefined, Num(0), Num(1000), NaN}]

InitVis ==
    /\ visArgs \in VisInputs
    /\ visResult = Null

InitVisIdle ==
    /\ visArgs = Null
    /\ visResult = Null

CallVisibility ==
    /\ visArgs # Null
    /\ visResult = Null
    /\ visResult' = calculateVisibility(visArgs.satPos, visArgs.observerLat,
                                        visArgs.observerLon,
                                        visArgs.observerAlt)
    /\ UNCHANGED <<visArgs, exceptVis>>

\* what satellite.propagate may give during a scan: null, a result without
\* a usable position, or a position
PassSamples ==
    {Null,
     PropagateFailed,
     Sample(NaN, Num(0), Num(400)),
     Sample(Num(0), Num(0), Num(400)),
     Sample(Num(90), Num(0), Num(0)),
     Sample(Num(90), Num(0), Num(400)),
     Sample(Num(-90), Num(0), Num(400))}

\* horizon is hours * 60, the number of one-minute samples of the scan
PassInputs ==
    [observerLat : {Num(0), Num(90)},
     observerLon : {Num(0)},
     startTime : {0},
     horizon : 1..MaxScanMinutes,
     minElevation : {Undefined, Num(0), Num(45)}]

InitPass ==
    /\ ppArgs \in PassInputs
    /\ ppI = 0
    /\ inPass = FALSE
    /\ currentPass = Null
    /\ passes = <<>>
    /\ ppResult = Null
    /\ ephemeris = <<>>

InitPassIdle ==
    /\ ppArgs = Null
    /\ ppI = 0
    /\ inPass = FALSE
    /\ currentPass = Null
    /\ passes = <<>>
    /\ ppResult = Null
    /\ ephemeris = <<>>

MinElevation == DefaultArg(ppArgs.minElevation, Num(DefaultMinElevation))

\* one iteration of the scan loop
ScanStep ==
    /\ ppArgs # Null
    /\ ppResult = Null
    /\ ppI < ppArgs.horizon
    /\ \E s \in PassSamples :
          /\ ephemeris' = Append(ephemeris, s)
          /\ IF ScanThrows(s)
             THEN /\ ppResult' = [passes |-> <<>>, threw |-> TRUE]
                  /\ UNCHANGED <<ppI, inPass, currentPass, passes>>
             ELSE LET st == ScanSample(ScanState(inPass, currentPass, passes),
                                       s, SampleTime(ppArgs.startTime, ppI),
                                       ppArgs.observerLat, ppArgs.observerLon,
                                       MinElevation)
                  IN /\ inPass' = st.inPass
                     /\ currentPass' = st.currentPass
                     /\ passes' = st.passes
                     /\ ppI' = ppI + 1
                     /\ UNCHANGED ppResult
    /\ UNCHANGED <<ppArgs, exceptPass>>

\* the loop ends and predictPasses returns
ScanReturn ==
    /\ ppArgs # Null
    /\ ppResult = Null
    /\ ppI >= ppArgs.horizon
    /\ ppResult' = [passes |-> ScanResult(ScanState(inPass, currentPass,
                                                    passes)),
                    threw |-> FALSE]
    /\ UNCHANGED <<ppArgs, ppI, inPass, currentPass, passes, ephemeris,
                   exceptPass>>

----------------------------------------------------------------------------
(* strings, names and catalogue categories (spaceTrackService.js) *)

\* a string is its sequence of characters
Str(cs) == [t |-> "str", v |-> cs]

LowerCase ==
    <<"a", "b", "c", "d", "e", "f", "g", "h", "i", "j", "k", "l", "m", "n", "o", "p", "q", "r", "s", "t", "u", "v", "w", "x", "y", "z">>

UpperCase ==
    <<"A", "B", "C", "D", "E", "F", "G", "H", "I", "J", "K", "L", "M", "N", "O", "P", "Q", "R", "S", "T", "U", "V", "W", "X", "Y", "Z">>

ToUpperChar(c) ==
    IF \E i \in 1..Len(LowerCase) : LowerCase[i] = c
    THEN UpperCase[CHOOSE i \in 1..Len(LowerCase) : LowerCase[i] = c]
    ELSE c

\* String.prototype.toUpperCase
ToUpperCase(cs) == [i \in 1..Len(cs) |-> ToUpperChar(cs[i])]

\* String.prototype.includes
Includes(cs, sub) ==
    \E i \in 1..(Len(cs) - Len(sub) + 1) :
        SubSeq(cs, i, i + Len(sub) - 1) = sub

StationWords ==
    {<<"I", "S", "S">>,
     <<"Z", "A", "R", "Y", "A">>,
     <<"T", "I", "A", "N", "G", "O", "N", "G">>,
     <<"T", "I", "A", "N", "H", "E">>,
     <<"C", "S", "S">>}

StarlinkWords ==
    {<<"S", "T", "A", "R", "L", "I", "N", "K">>}

WeatherWords ==
    {<<"N", "O", "A", "A">>,
     <<"G", "O", "E", "S">>,
     <<"M", "E", "T", "O", "P">>,
     <<"W", "E", "A", "T", "H", "E", "R">>}

NavigationWords ==
    {<<"G", "P", "S">>,
     <<"G", "L", "O", "N", "A", "S", "S">>,
     <<"G", "A", "L", "I", "L", "E", "O">>,
     <<"B", "E", "I", "D", "O", "U">>}

CommunicationWords ==
    {<<"I", "R", "I", "D", "I", "U", "M">>,
     <<"I", "N", "T", "E", "L", "S", "A", "T">>,
     <<"T", "E", "L", "E", "S", "A", "T">>}

IncludesAny(cs, words) == \E w \in words : Includes(cs, w)

\* determineCategory(name), name a sequence of characters
determineCategory(name) ==
    LET upperName == ToUpperCase(name)
    IN IF IncludesAny(upperName, StationWords) THEN "station"
       ELSE IF IncludesAny(upperName, StarlinkWords) THEN "starlink"
       ELSE IF IncludesAny(upperName, WeatherWords) THEN "weather"
       ELSE IF IncludesAny(upperName, NavigationWords) THEN "navigation"
       ELSE IF IncludesAny(upperName, CommunicationWords) THEN "communication"
       ELSE "other"

----------------------------------------------------------------------------
(* TLE lines and parseTLEEpoch *)

HoursPerDay == 24

\* the eight digits after the decimal point of the epoch field
FractionScale == 100000000

PivotYear == 57

\* the field YYDDD.dddddddd in columns 19-32 of line 1
EpochField(yy, ddd, frac) == [yy |-> yy, ddd |-> ddd, frac |-> frac]

\* what satellite.js makes of an element set that parses and propagates
Sgp4Ok ==
    [satrecError |-> FALSE, throws |-> FALSE,
     posVel |-> Sample(Num(0), Num(90), Num(400))]

\* a line of a TLE as a string: its length, and the parts the code reads
\* from it: the catalogue number in columns 3-7, the epoch field, and what
\* satellite.js makes of the element set
TleLine(len, catnr, epoch, sgp4) ==
    [t |-> "tle",
     v |-> [len |-> len, catnr |-> catnr, epoch |-> epoch, sgp4 |-> sgp4]]

\* .length of a string
StrLength(x) == IF x.t = "str" THEN Len(x.v) ELSE x.v.len

\* truthiness of a field: undefined, null, NaN, 0 and "" are falsy
Truthy(x) ==
    CASE x.t = "str" -> x.v # <<>>
      [] x.t = "tle" -> x.v.len > 0
      [] x.t = "num" -> x.v # 0
      [] OTHER -> FALSE

\* ECMAScript DayFromYear: the day number of 1 January, from 1970
DayFromYear(y) ==
    365 * (y - 1970) + ((y - 1969) \div 4) - ((y - 1901) \div 100)
    + ((y - 1601) \div 400)

\* the instant of local midnight of the date-th day counted from 1 January of
\* fullYear, in hours since 1970-01-01T00:00Z; tz is local time minus UTC
LocalDate(fullYear, date, tz) ==
    (DayFromYear(fullYear) + date - 1) * HoursPerDay - tz

\* Date.prototype.setDate passes its argument through ToIntegerOrInfinity:
\* of a non-negative whole + frac / FractionScale only the whole part is kept
ToIntegerOrInfinity(whole, frac) == whole

\* the y2k pivot
FullYear(year) == IF year < PivotYear THEN 2000 + year ELSE 1900 + year

\* parseTLEEpoch(tle1) in a browser whose time zone is tz hours ahead of UTC
parseTLEEpoch(tle1, tz) ==
    LET epochStr == tle1.v.epoch
        fullYear == FullYear(epochStr.yy)
        \* epoch.getDate() + dayOfYear - 1, where getDate() is 1
        date == ToIntegerOrInfinity(1 + epochStr.ddd - 1, epochStr.frac)
    IN LocalDate(fullYear, date, tz)

----------------------------------------------------------------------------
(* parseSpaceTrackData and the filter of loadSatellites *)

MaxRaw == 2

MaxTleAgeDays == 60

MapSeq(q, F(_)) == [i \in 1..Len(q) |-> F(q[i])]

\* the filter of parseSpaceTrackData
SpaceTrackItemComplete(item) ==
    IF item = Null THEN FALSE
    ELSE /\ Truthy(item.NORAD_CAT_ID)
         /\ Truthy(item.OBJECT_NAME)
         /\ Truthy(item.TLE_LINE1)
         /\ Truthy(item.TLE_LINE2)
         /\ StrLength(item.TLE_LINE1) = TleLength
         /\ StrLength(item.TLE_LINE2) = TleLength

\* the record built by parseSpaceTrackData (epoch and objectType are copied
\* from the item and never read)
SpaceTrackRecord(item) ==
    [id |-> item.NORAD_CAT_ID,
     name |-> item.OBJECT_NAME,
     tle1 |-> item.TLE_LINE1,
     tle2 |-> item.TLE_LINE2,
     category |-> determineCategory(item.OBJECT_NAME.v)]

parseSpaceTrackData(data) ==
    IF data.t # "array" THEN <<>>
    ELSE MapSeq(SelectSeq(data.v, SpaceTrackItemComplete), SpaceTrackRecord)

\* chk for null/invalid tle
HasValidTle(sat) ==
    /\ Truthy(sat.tle1)
    /\ Truthy(sat.tle2)
    /\ StrLength(sat.tle1) = TleLength
    /\ StrLength(sat.tle2) = TleLength

\* tleAgeDays > 60, both sides in hours
TleTooOld(sat, now, tz) ==
    now - parseTLEEpoch(sat.tle1, tz) > MaxTleAgeDays * HoursPerDay

\* the tle parse test and the propagation test
PropagationTestPasses(sat) ==
    LET o == sat.tle1.v.sgp4
    IN ~o.satrecError /\ ~o.throws /\ o.posVel # Null /\ o.posVel.ok

\* the callback of satelliteData.filter
SatelliteFilter(sat, now, tz) ==
    IF ~HasValidTle(sat) THEN FALSE
    ELSE IF TleTooOld(sat, now, tz) THEN FALSE
    ELSE PropagationTestPasses(sat)

\* a variant that takes every item of the response as it is
validSatellitesUnfiltered(data, now, tz) ==
    IF data.t # "array" THEN <<>>
    ELSE MapSeq(SelectSeq(data.v, LAMBDA item :
                    item # Null /\ Truthy(item.OBJECT_NAME)),
                SpaceTrackRecord)

\* validSatellites of loadSatellites for the response data
validSatellites(data, now, tz) ==
    LET Keep(sat) == SatelliteFilter(sat, now, tz)
    IN SelectSeq(parseSpaceTrackData(data), Keep)

\* the line written by console.log
LoadLog(data, now, tz) ==
    LET satelliteData == parseSpaceTrackData(data)
        valid == validSatellites(data, now, tz)
    IN [loaded |-> Len(valid), total |-> Len(satelliteData),
        filtered |-> Len(satelliteData) - Len(valid)]

----------------------------------------------------------------------------
(* parseTLEText (utils/tleData.js) *)

MaxTextLines == 4

DigitChars == <<"0", "1", "2", "3", "4", "5", "6", "7", "8", "9">>

IsDigit(c) == \E i \in 1..Len(DigitChars) : DigitChars[i] = c

DigitValue(c) == (CHOOSE i \in 1..Len(DigitChars) : DigitChars[i] = c) - 1

RECURSIVE LeadingDigits(_, _)
LeadingDigits(cs, acc) ==
    IF cs = <<>> \/ ~IsDigit(Head(cs)) THEN acc
    ELSE LeadingDigits(Tail(cs), 10 * acc + DigitValue(Head(cs)))

RECURSIVE TrimStart(_)
TrimStart(cs) ==
    IF cs # <<>> /\ Head(cs) = " " THEN TrimStart(Tail(cs)) ELSE cs

\* parseInt of an unsigned decimal string
ParseInt(cs) ==
    LET body == TrimStart(cs)
    IN IF body = <<>> \/ ~IsDigit(Head(body)) THEN NaN
       ELSE Num(LeadingDigits(body, 0))

Min(a, b) == IF a < b THEN a ELSE b

\* parseInt(line.substring(2, 7))
ParseCatalogNumber(line) ==
    IF line.t = "tle" THEN Num(line.v.catnr)
    ELSE ParseInt(SubSeq(line.v, 3, Min(7, Len(line.v))))

\* the loop of parseTLEText from index i (counted from 0), lines trimmed
RECURSIVE ParseTriplets(_, _, _)
ParseTriplets(lines, i, sats) ==
    IF i >= Len(lines) THEN sats
    ELSE ParseTriplets(lines, i + 3,
            IF i + 2 < Len(lines)
            THEN Append(sats, [id |-> ParseCatalogNumber(lines[i + 2]),
                               name |-> lines[i + 1],
                               tle1 |-> lines[i + 2],
                               tle2 |-> lines[i + 3],
                               category |-> "imported"])
            ELSE sats)

parseTLEText(lines) == ParseTriplets(lines, 0, <<>>)

----------------------------------------------------------------------------
(* calculateGroundTrack *)

MaxTrackMinutes == 4

DefaultStep == 1

\* what satellite.propagate may hand back to calculateGroundTrack: null
\* (the worker's own guard reports it as "Propagation returned null"), a
\* result without a usable position, or a position
TrackSamples ==
    {Null,
     PropagateFailed,
     Sample(NaN, Num(0), Num(400)),
     Sample(Num(0), Num(90), Num(400))}

\* posVel.position is read from a null posVel: a TypeError
TrackThrows(s) == s = Null

\* posVel.position && !posVel.position.error, then the isFinite test
TrackPointKept(s) == s # Null /\ s.ok /\ SampleFinite(s)

\* points.push({latitude, longitude, altitude, time}) for a kept sample
TrackPush(points, s, time) ==
    IF TrackPointKept(s)
    THEN Append(points, [latitude |-> s.latitude, longitude |-> s.longitude,
                         altitude |-> s.altitude, time |-> time])
    ELSE points

\* the component calls calculateGroundTrack(satrec, new Date(), 180, 2);
\* the durations and steps here are scaled down
TrackInputs ==
    [startTime : {0},
     durationMinutes : 1..MaxTrackMinutes,
     step : {Undefined, Num(1), Num(2)}]

InitTrack ==
    /\ gtArgs \in TrackInputs
    /\ gtI = 0
    /\ gtPoints = <<>>
    /\ gtResult = Null
    /\ gtSamples = <<>>

InitTrackIdle ==
    /\ gtArgs = Null
    /\ gtI = 0
    /\ gtPoints = <<>>
    /\ gtResult = Null
    /\ gtSamples = <<>>

Step == DefaultArg(gtArgs.step, Num(DefaultStep)).v

\* one iteration of for (let i = 0; i < durationMinutes; i += step)
TrackStep ==
    /\ gtArgs # Null
    /\ gtResult = Null
    /\ gtI < gtArgs.durationMinutes
    /\ \E s \in TrackSamples :
          LET time == SampleTime(gtArgs.startTime, gtI)
          IN /\ gtSamples' = Append(gtSamples, [i |-> gtI, time |-> time,
                                                posVel |-> s])
             /\ IF TrackThrows(s)
                THEN /\ gtResult' = [threw |-> TRUE, points |-> <<>>]
                     /\ UNCHANGED <<gtI, gtPoints>>
                ELSE /\ gtPoints' = TrackPush(gtPoints, s, time)
                     /\ gtI' = gtI + Step
                     /\ UNCHANGED gtResult
    /\ UNCHANGED <<gtArgs, exceptTrack>>

\* the loop ends and calculateGroundTrack returns points
TrackReturn ==
    /\ gtArgs # Null
    /\ gtResult = Null
    /\ gtI >= gtArgs.durationMinutes
    /\ gtResult' = [threw |-> FALSE, points |-> gtPoints]
    /\ UNCHANGED <<gtArgs, gtI, gtPoints, gtSamples, exceptTrack>>

----------------------------------------------------------------------------
(* inputs and steps of the ingest paths *)

\* the browser's time zone, in hours ahead of UTC
TimeZones == {-5, 0, 9}

\* epoch fields of 2024: 61 days, 59 days and a few days before NowChoices
EpochStale == EpochField(24, 44, 75000000)

EpochRecent == EpochField(24, 46, 75000000)

EpochFresh == EpochField(24, 100, 50000000)

\* new Date() at the load: 18:00 UTC on day 105 of 2024
NowChoices == {(DayFromYear(2024) + 104) * HoursPerDay + 18}

Line2 == TleLine(TleLength, 25544, Null, Null)

Item(id, name, line1, line2) ==
    [NORAD_CAT_ID |-> id, OBJECT_NAME |-> name,
     TLE_LINE1 |-> line1, TLE_LINE2 |-> line2]

\* records of a Space-Track response
RawItems ==
    {Item(Num(25544), Str(<<"I", "S", "S", " ", "(", "Z", "A", "R", "Y", "A", ")">>),
          TleLine(TleLength, 25544, EpochRecent, Sgp4Ok), Line2),
     Item(Num(43013), Str(<<"S", "t", "a", "r", "l", "i", "n", "k", "-", "3", "0">>),
          TleLine(TleLength, 43013, EpochStale, Sgp4Ok), Line2),
     Item(Num(28654), Str(<<"N", "O", "A", "A", " ", "1", "8">>),
          TleLine(68, 28654, EpochFresh, Sgp4Ok), Line2),
     Item(Num(43689), Str(<<"G", "P", "S", " ", "B", "I", "I", "R", "-", "2">>),
          TleLine(TleLength, 43689, EpochFresh, Sgp4Ok), Undefined),
     Item(Num(20580), Str(<<"H", "S", "T">>),
          TleLine(TleLength, 20580, EpochFresh,
                  [satrecError |-> FALSE, throws |-> FALSE, posVel |-> Null]),
          Line2),
     Item(Undefined, Str(<<"I", "R", "I", "D", "I", "U", "M", " ", "7">>),
          TleLine(TleLength, 24793, EpochFresh, Sgp4Ok), Line2),
     Item(Num(48274), Str(<<"c", "s", "s", " ", "s", "t", "a", "r", "l", "i", "n", "k">>),
          TleLine(TleLength, 48274, EpochFresh, Sgp4Ok), Line2),
     Item(Num(40294), Str(<<"W", "e", "a", "t", "h", "e", "r", " ", "G", "P", "S">>),
          TleLine(TleLength, 40294, EpochFresh,
                  [satrecError |-> TRUE, throws |-> FALSE, posVel |-> Null]),
          Line2)}

SeqsUpTo(S, n) == UNION {[1..k -> S] : k \in 0..n}

\* what makeAuthenticatedRequest resolves to: an array of records, or a JSON
\* value that is not an array
Responses ==
    {[t |-> "object", v |-> <<>>]}
    \cup {[t |-> "array", v |-> q] : q \in SeqsUpTo(RawItems, MaxRaw)}

InitLoad ==
    /\ fetched = Null
    /\ catalog = <<>>
    /\ loadLog = Null
    /\ loadError = FALSE
    /\ timeZone \in TimeZones

InitLoadIdle ==
    /\ fetched = Null
    /\ catalog = <<>>
    /\ loadLog = Null
    /\ loadError = FALSE
    /\ timeZone = 0

\* loadSatellites with a response: parse, filter, log, setSatellites
LoadSatellitesFetched ==
    /\ \E data \in Responses, now \in NowChoices :
          /\ fetched' = [data |-> data, now |-> now]
          /\ catalog' = validSatellites(data, now, timeZone)
          /\ loadLog' = LoadLog(data, now, timeZone)
    /\ loadError' = FALSE
    /\ UNCHANGED <<timeZone, exceptLoad>>

\* loadSatellites when the request throws: setError, satellites are kept
LoadSatellitesFails ==
    /\ fetched' = Null
    /\ loadError' = TRUE
    /\ UNCHANGED <<catalog, loadLog, timeZone, exceptLoad>>

\* lines of a TLE text, trimmed
TextLines ==
    {Str(<<"I", "S", "S", " ", "(", "Z", "A", "R", "Y", "A", ")">>),
     TleLine(TleLength, 25544, EpochFresh, Sgp4Ok),
     Line2,
     TleLine(68, 28654, EpochFresh, Sgp4Ok)}

InitImportIdle ==
    /\ tleText = Null
    /\ imported = <<>>

\* parseTLEText(tleText): tleText.trim().split('\n') has at least one line
CallParseTLEText ==
    /\ \E lines \in SeqsUpTo(TextLines, MaxTextLines) \ {<<>>} :
          /\ tleText' = [lines |-> lines]
          /\ imported' = parseTLEText(lines)
    /\ UNCHANGED exceptImport

EpochInputs ==
    [tle1 : {TleLine(TleLength, 25544, EpochField(yy, ddd, frac), Sgp4Ok) :
                yy \in {0, 24, 56, 57, 99}, ddd \in {1, 45, 60, 365},
                frac \in {0, 25000000, 50000000, 75000000}},
     tz : TimeZones]

InitEpoch ==
    /\ epochArgs \in EpochInputs
    /\ epochResult = Null

InitEpochIdle ==
    /\ epochArgs = Null
    /\ epochResult = Null

CallParseTLEEpoch ==
    /\ epochArgs # Null
    /\ epochResult = Null
    /\ epochResult' = Num(parseTLEEpoch(epochArgs.tle1, epochArgs.tz))
    /\ UNCHANGED <<epochArgs, exceptEpoch>>

----------------------------------------------------------------------------
(* getOrbitType *)

LeoCeiling == 2000

GeoAltitude == 35786

getOrbitType(altitude) ==
    IF JsLt(altitude, Num(LeoCeiling)) THEN "LEO"
    ELSE IF JsLt(altitude, Num(GeoAltitude)) THEN "MEO"
    ELSE "GEO"

\* pos.altitude of a position record, in whole km
OrbitInputs ==
    {NaN} \cup {Num(a) : a \in {0, 1999, 2000, 2001, 20200}
                              \cup 400..430 \cup 35776..35796}

InitOrbit ==
    /\ orbitArgs \in [altitude : OrbitInputs]
    /\ orbitResult = Null

InitOrbitIdle ==
    /\ orbitArgs = Null
    /\ orbitResult = Null

CallGetOrbitType ==
    /\ orbitArgs # Null
    /\ orbitResult = Null
    /\ orbitResult' = [type |-> getOrbitType(orbitArgs.altitude)]
    /\ UNCHANGED <<orbitArgs, exceptOrbit>>

----------------------------------------------------------------------------
NextVis == CallVisibility

NextPass == ScanStep \/ ScanReturn

NextTick ==
    \/ TimerTick
    \/ WorkerRun
    \/ ToggleTracking
    \/ SetUpdateInterval
    \/ LoadSatellites
    \/ Unmount

\* calculateVisibility on one input
VisInit ==
    /\ InitVis /\ InitPassIdle /\ InitTick /\ InitTrackIdle
    /\ InitLoadIdle /\ InitImportIdle /\ InitEpochIdle /\ InitOrbitIdle
    /\ InitReload

SpecVis == VisInit /\ [][NextVis]_vars

\* one predictPasses scan
PassInit ==
    /\ InitVisIdle /\ InitPass /\ InitTick /\ InitTrackIdle
    /\ InitLoadIdle /\ InitImportIdle /\ InitEpochIdle /\ InitOrbitIdle
    /\ InitReload

SpecPass == PassInit /\ [][NextPass]_vars

\* the mounted component
TickInit ==
    /\ InitVisIdle /\ InitPassIdle /\ InitTick /\ InitTrackIdle
    /\ InitLoadIdle /\ InitImportIdle /\ InitEpochIdle /\ InitOrbitIdle
    /\ InitReload

NextSelect ==
    \/ LoadSatellites
    \/ WorkerRun
    \/ SelectSatellite
    \/ Deselect
    \/ SetObserverLocation
    \/ ToggleGroundTrack
    \/ GroundTrackInterval

SpecSelect == TickInit /\ [][NextSelect]_vars

SpecTick == TickInit /\ [][NextTick]_vars

\* one calculateGroundTrack scan
NextTrack == TrackStep \/ TrackReturn

TrackInit ==
    /\ InitVisIdle /\ InitPassIdle /\ InitTick /\ InitTrack
    /\ InitLoadIdle /\ InitImportIdle /\ InitEpochIdle /\ InitOrbitIdle
    /\ InitReload

SpecTrack == TrackInit /\ [][NextTrack]_vars

Idle == InitVisIdle /\ InitPassIdle /\ InitTick /\ InitTrackIdle

IngestIdle == InitLoadIdle /\ InitImportIdle /\ InitEpochIdle

\* getOrbitType applied to one altitude
NextOrbit == CallGetOrbitType

OrbitInit == Idle /\ IngestIdle /\ InitOrbit /\ InitReload

NextReload ==
    \/ Login
    \/ LoginFails
    \/ ChangeDataSource
    \/ ChangeCategory
    \/ RefreshClick
    \/ LoadSucceeds
    \/ LoadFails
    \/ MinutePasses
    \/ HourPasses

ReloadInit == Idle /\ IngestIdle /\ InitOrbitIdle /\ InitReload

SpecReload == ReloadInit /\ [][NextReload]_vars

SpecOrbit == OrbitInit /\ [][NextOrbit]_vars

\* loads and refreshes of the catalog
NextLoad == LoadSatellitesFetched \/ LoadSatellitesFails

LoadInit ==
    Idle /\ InitLoad /\ InitImportIdle /\ InitEpochIdle /\ InitOrbitIdle
    /\ InitReload

SpecLoad == LoadInit /\ [][NextLoad]_vars

\* parseTLEText applied to texts of up to MaxTextLines lines
NextImport == CallParseTLEText

ImportInit ==
    Idle /\ InitLoadIdle /\ InitImportIdle /\ InitEpochIdle /\ InitOrbitIdle
    /\ InitReload

SpecImport == ImportInit /\ [][NextImport]_vars

\* parseTLEEpoch applied to one line 1
NextEpoch == CallParseTLEEpoch

EpochInit ==
    Idle /\ InitLoadIdle /\ InitImportIdle /\ InitEpoch /\ InitOrbitIdle
    /\ InitReload

SpecEpoch == EpochInit /\ [][NextEpoch]_vars

----------------------------------------------------------------------------
(* properties of the position-update loop *)

\* C1: at most one propagation batch is in flight at any time: no batch is
\* posted while an earlier one has not delivered its result.
C1_AtMostOneBatchInFlight == Len(workerTimers) <= 1

\* C2: once the catalog is replaced, the result of a batch posted for the
\* old object set is discarded: positions is only ever overwritten with a
\* snapshot computed from the current catalog.
C2_StaleBatchDiscarded ==
    [][positions' # positions => positions'.from = satellites'.gen]_vars

----------------------------------------------------------------------------
(* properties of predictPasses *)

\* the sample of minute j of the scan, j = 0, 1, ...
ValidAt(j) ==
    /\ ephemeris[j + 1] # Null
    /\ ephemeris[j + 1].ok
    /\ SampleFinite(ephemeris[j + 1])

ElevationAt(j) ==
    calculateVisibility([latitude |-> ephemeris[j + 1].latitude,
                         longitude |-> ephemeris[j + 1].longitude,
                         altitude |-> ephemeris[j + 1].altitude],
                        ppArgs.observerLat, ppArgs.observerLon,
                        Undefined).elevation

MinuteOf(time) == (time - ppArgs.startTime) \div MsPerMinute

Returned == {ppResult.passes[k] : k \in 1..Len(ppResult.passes)}

SetMax(S) == CHOOSE m \in S : \A n \in S : n <= m
SetMin(S) == CHOOSE m \in S : \A n \in S : m <= n

\* C3: the returned passes are in increasing start-time order and do not
\* overlap: each has startTime < endTime, and each ends no later than the
\* next one starts.
C3_PassesOrderedDisjoint ==
    ppResult # Null =>
        \A k \in 1..Len(ppResult.passes) :
            /\ ppResult.passes[k].startTime < ppResult.passes[k].endTime
            /\ k > 1 => ppResult.passes[k - 1].endTime
                            <= ppResult.passes[k].startTime

C3_TwoPassesReturned == ppResult # Null /\ Len(ppResult.passes) >= 2

\* C4: every returned pass starts at an upward crossing: a valid sample
\* precedes startTime in the scan, the latest such sample is at or below
\* minElevation, and the sample at startTime is above it.
C4_StartAtUpwardCrossing ==
    ppResult # Null =>
        \A p \in Returned :
            LET before == {j \in 0..(MinuteOf(p.startTime) - 1) : ValidAt(j)}
            IN /\ before # {}
               /\ ~JsGt(ElevationAt(SetMax(before)), MinElevation)
               /\ JsGt(ElevationAt(MinuteOf(p.startTime)), MinElevation)

\* C5: a pass still open when the scan ends is discarded: every returned
\* pass carries endTime, endAzimuth and duration, its endTime is a sample
\* time of the scan at which the elevation is below minElevation, and its
\* duration is endTime - startTime in minutes.
C5_ReturnedPassesClosed ==
    ppResult # Null =>
        \A p \in Returned :
            /\ {"endTime", "endAzimuth", "duration"} \subseteq DOMAIN p
            /\ \E j \in 0..(ppArgs.horizon - 1) :
                  /\ p.endTime = SampleTime(ppArgs.startTime, j)
                  /\ ValidAt(j)
                  /\ JsLt(ElevationAt(j), MinElevation)
            /\ p.duration * MsPerMinute = p.endTime - p.startTime

C5_OpenPassDiscarded ==
    /\ ppResult # Null
    /\ inPass
    /\ Len(ppResult.passes) >= 1
    /\ \A p \in Returned : p.startTime # currentPass.startTime

\* the valid samples of a returned pass, from its start up to its end
\* (the end sample excluded)
InPassMinutes(p) ==
    {j \in MinuteOf(p.startTime)..(MinuteOf(p.endTime) - 1) : ValidAt(j)}

\* C6: maxElevation of a returned pass is the largest sampled elevation
\* from startTime up to (not including) endTime, maxElevationTime is the
\* earliest sample time attaining it, startTime <= maxElevationTime <
\* endTime, and maxElevation >= minElevation.
C6_MaxElevationTracked ==
    ppResult # Null =>
        \A p \in Returned :
            /\ \A j \in InPassMinutes(p) :
                  ~JsGt(ElevationAt(j), p.maxElevation)
            /\ LET attained == {j \in InPassMinutes(p) :
                                   ElevationAt(j) = p.maxElevation}
               IN /\ attained # {}
                  /\ p.maxElevationTime
                        = SampleTime(ppArgs.startTime, SetMin(attained))
            /\ p.startTime <= p.maxElevationTime
            /\ p.maxElevationTime < p.endTime
            /\ isFinite(p.maxElevation)
            /\ ~JsLt(p.maxElevation, MinElevation)

C6_MaxAfterStartAttainedTwice ==
    /\ ppResult # Null
    /\ \E p \in Returned :
          /\ p.maxElevationTime > p.startTime
          /\ Cardinality({j \in InPassMinutes(p) :
                             ElevationAt(j) = p.maxElevation}) >= 2

----------------------------------------------------------------------------
(* properties of calculateVisibility *)

Called == visResult # Null

FiniteSat ==
    /\ visArgs.satPos # Null
    /\ isFinite(visArgs.satPos.latitude)
    /\ isFinite(visArgs.satPos.longitude)
    /\ isFinite(visArgs.satPos.altitude)

FiniteObserver ==
    /\ isFinite(visArgs.observerLat)
    /\ isFinite(visArgs.observerLon)
    /\ isFinite(DefaultArg(visArgs.observerAlt, Num(0)))

\* C7: a satellite at the observer's zenith (same latitude and longitude,
\* altitude > 0) has elevation 90 and is visible, wherever the observer is.
C7_ZenithElevation90 ==
    (/\ Called
     /\ FiniteSat
     /\ FiniteObserver
     /\ visArgs.satPos.latitude = visArgs.observerLat
     /\ visArgs.satPos.longitude = visArgs.observerLon
     /\ DefaultArg(visArgs.observerAlt, Num(0)) = Num(0)
     /\ visArgs.satPos.altitude.v > 0)
    => (visResult.elevation = Num(90) /\ visResult.isVisible)

\* C8: azimuth is the compass bearing from north through east in
\* [0, 360): from an observer on the equator a satellite over the north
\* pole on the observer's meridian is at azimuth 0, and a satellite over
\* the equator 90 degrees of longitude to the east is at azimuth 90.
C8_AzimuthCompassBearing ==
    (Called /\ FiniteSat /\ FiniteObserver) =>
        /\ visResult.azimuth.v >= 0 /\ visResult.azimuth.v < 360
        /\ (/\ visArgs.observerLat = Num(0)
            /\ visArgs.satPos.altitude.v > 0
            /\ visArgs.satPos.latitude = Num(90)
            /\ visArgs.satPos.longitude = visArgs.observerLon)
           => visResult.azimuth = Num(0)
        /\ (/\ visArgs.observerLat = Num(0)
            /\ visArgs.satPos.altitude.v > 0
            /\ visArgs.satPos.latitude = Num(0)
            /\ (visArgs.satPos.longitude.v - visArgs.observerLon.v) % 360 = 90)
           => visResult.azimuth = Num(90)

\* C9: whenever a coordinate of the satellite or of the observer is
\* non-finite or missing, the result is the sentinel (range 0, elevation
\* -90, azimuth 0, not visible).  An omitted observerAlt is the default 0
\* and is not counted as missing here.
C9_SentinelOnNonFinite ==
    (Called /\ ~(FiniteSat /\ FiniteObserver)) => visResult = InvalidVisibility

\* C10: for every input, accepted or rejected, isVisible holds exactly
\* when elevation > 0.
C10_VisibleIffElevationPositive ==
    Called => (visResult.isVisible <=> JsGt(visResult.elevation, Num(0)))

C10_ElevationZeroNotVisible ==
    /\ Called
    /\ FiniteSat
    /\ FiniteObserver
    /\ visResult.elevation = Num(0)
    /\ ~visResult.isVisible

----------------------------------------------------------------------------
(* properties of calculateGroundTrack *)

GtReturned == gtArgs # Null /\ gtResult # Null /\ ~gtResult.threw

\* no sample of the scan failed
NoSampleFailed ==
    \A k \in 1..Len(gtSamples) : TrackPointKept(gtSamples[k].posVel)

StepDivides == gtArgs.durationMinutes % Step = 0

LastPoint == gtResult.points[Len(gtResult.points)]

\* C11: the scan evaluates start + k*step minutes for every k*step <= duration:
\* when no sample fails the track has floor(duration/step) + 1 points, and its
\* last point is at start + duration when step divides duration.
C11_GridReachesDuration ==
    (GtReturned /\ NoSampleFailed) =>
        /\ Len(gtResult.points) = (gtArgs.durationMinutes \div Step) + 1
        /\ StepDivides =>
             LastPoint.time = SampleTime(gtArgs.startTime,
                                         gtArgs.durationMinutes)

\* the samples of the scan that succeeded, as track points
RECURSIVE SucceededPoints(_)
SucceededPoints(log) ==
    IF log = <<>> THEN <<>>
    ELSE TrackPush(SucceededPoints(SubSeq(log, 1, Len(log) - 1)),
                   log[Len(log)].posVel, log[Len(log)].time)

TimesIncrease(points) ==
    \A a, b \in 1..Len(points) : a < b => points[a].time < points[b].time

\* C12: a sample that fails to propagate or is not finite is dropped without
\* aborting the scan: the scan returns, and the track is exactly the samples
\* that succeeded, in increasing time order, all finite.
C12_FailedSampleDropped ==
    (gtArgs # Null /\ gtResult # Null) =>
        /\ ~gtResult.threw
        /\ gtResult.points = SucceededPoints(gtSamples)
        /\ TimesIncrease(gtResult.points)
        /\ \A k \in 1..Len(gtResult.points) :
              SampleFinite(gtResult.points[k])

----------------------------------------------------------------------------
(* properties of SatelliteWorker *)

InRange(x, lo, hi) == isFinite(x) /\ x.v >= lo /\ x.v <= hi

ValidPositionRecord(r) ==
    /\ InRange(r.latitude, -90, 90)
    /\ InRange(r.longitude, -180, 180)
    /\ isFinite(r.altitude)

\* C13: every position record delivered by the worker has finite latitude,
\* longitude and altitude in range; a record that is not is discarded before
\* it reaches the positions state.
C13_PositionsFinite ==
    \A id \in positions.ids : ValidPositionRecord(positions.pos[id])

\* the objects of the last batch by what the propagator did for them
LoggedFinite ==
    {id \in workerLog.ids :
        LET o == workerLog.outcome[id]
        IN ~o.satrecError /\ ~o.throws /\ o.posVel # Null /\ o.posVel.ok
           /\ SampleFinite(o.posVel)}

LoggedFailed ==
    {id \in workerLog.ids :
        LET o == workerLog.outcome[id]
        IN o.satrecError \/ o.throws \/ o.posVel = Null \/ ~o.posVel.ok}

\* C14: a failure for one object never aborts the batch: while the worker is
\* not terminated every posted batch
\* is either still pending or has delivered exactly one message, and the
\* message holds a position for each object that propagated and none for
\* the objects that failed.
C14_FailureIsolated ==
    onmessage =>
        /\ messageId = delivered + Len(workerTimers)
        /\ workerLog # Null =>
              /\ LoggedFinite \subseteq positions.ids
              /\ positions.ids \cap LoggedFailed = {}
              /\ positions.ids \subseteq workerLog.ids

C14_OneFailedOneDelivered ==
    /\ workerLog # Null
    /\ \E a, b \in workerLog.ids :
          /\ workerLog.outcome[a].throws
          /\ b \in LoggedFinite
          /\ b \in positions.ids
          /\ a \notin positions.ids

----------------------------------------------------------------------------
(* properties of the ingest paths *)

IsLine69(x) == x.t = "tle" /\ x.v.len = 69

\* C15: every object in the catalog has tle1 and tle2 present and exactly 69
\* characters long, after any sequence of loads and refreshes.
C15_CatalogLines69 ==
    \A k \in 1..Len(catalog) :
        IsLine69(catalog[k].tle1) /\ IsLine69(catalog[k].tle2)

C15_BadRecordKeptOut ==
    /\ fetched # Null
    /\ fetched.data.t = "array"
    /\ catalog # <<>>
    /\ \E k \in 1..Len(fetched.data.v) :
          LET item == fetched.data.v[k]
          IN /\ \/ StrLength(item.TLE_LINE1) = 68
                \/ ~Truthy(item.TLE_LINE2)
             /\ \A j \in 1..Len(catalog) : catalog[j].id # item.NORAD_CAT_ID

\* the UTC instant an epoch field stands for, in hours since 1970-01-01T00:00Z:
\* 00:00 UTC on 1 January of the year, plus day-of-year - 1 days, plus the
\* fraction of the day
EpochInstantUtc(e) ==
    (DayFromYear(FullYear(e.yy)) + e.ddd - 1) * 24
    + ((e.frac \div 1000000) * 24) \div 100

InCatalog(sat) == \E j \in 1..Len(catalog) : catalog[j] = sat

\* C16: an element set that parses and propagates is excluded when its epoch
\* is more than 60 days before now and retained when it is at most 60 days
\* before now, whatever the fraction of the epoch and the time zone.
C16_FreshnessAt60Days ==
    fetched # Null =>
        LET parsed == parseSpaceTrackData(fetched.data)
        IN \A k \in 1..Len(parsed) :
              LET age == fetched.now - EpochInstantUtc(parsed[k].tle1.v.epoch)
              IN PropagationTestPasses(parsed[k]) =>
                    /\ age > 60 * 24 => ~InCatalog(parsed[k])
                    /\ age <= 60 * 24 => InCatalog(parsed[k])

\* C17: parseTLEEpoch decodes the epoch field to the UTC instant, the
\* fraction of the day included.
C17_EpochDecodedUtc ==
    epochResult # Null =>
        epochResult = Num(EpochInstantUtc(epochArgs.tle1.v.epoch))

\* C18: no ingest path builds a record from a pair with a line that is not
\* 69 characters long.
C18_ShortLineRejected ==
    /\ \A k \in 1..Len(imported) :
          StrLength(imported[k].tle1) = 69 /\ StrLength(imported[k].tle2) = 69
    /\ fetched # Null =>
          LET parsed == parseSpaceTrackData(fetched.data)
          IN \A k \in 1..Len(parsed) :
                StrLength(parsed[k].tle1) = 69 /\ StrLength(parsed[k].tle2) = 69

\* C19: of the N raw records of a load, the number reported as loaded plus
\* the number reported as filtered is N.
C19_RejectionsCounted ==
    (fetched # Null /\ fetched.data.t = "array") =>
        loadLog.loaded + loadLog.filtered = Len(fetched.data.v)

Categories ==
    {"station", "starlink", "weather", "navigation", "communication", "other"}

\* C20: the category of every record is one of the six values and is the one
\* its name determines.
C20_CategoryFromName ==
    /\ \A k \in 1..Len(catalog) :
          /\ catalog[k].category \in Categories
          /\ catalog[k].category = determineCategory(catalog[k].name.v)
    /\ \A k \in 1..Len(imported) :
          /\ imported[k].category \in Categories
          /\ imported[k].name.t = "str" =>
                imported[k].category = determineCategory(imported[k].name.v)

----------------------------------------------------------------------------
(* failed samples of a pass scan *)

SampleFailed(s) == s = Null \/ ~s.ok \/ ~SampleFinite(s)

\* C26: a sample whose propagation fails or whose coordinates are not finite
\* changes nothing: inPass, currentPass and passes keep their values and the
\* scan goes on with the next minute.
C26_FailedSampleChangesNothing ==
    [][(Len(ephemeris') = Len(ephemeris) + 1
        /\ SampleFailed(ephemeris'[Len(ephemeris')]))
       => /\ inPass' = inPass
          /\ currentPass' = currentPass
          /\ passes' = passes
          /\ ppResult' = Null
          /\ ppI' = ppI + 1]_vars

----------------------------------------------------------------------------
(* properties of getOrbitType *)

\* C25: LEO iff altitude < 2000 km, MEO iff 2000 <= altitude < 35786, GEO iff
\* altitude >= 35786; an altitude of 400 to 430 km is LEO and an altitude
\* within a few km either side of 35786 km is GEO.
C25_OrbitClassification ==
    (orbitResult # Null /\ isFinite(orbitArgs.altitude)) =>
        LET a == orbitArgs.altitude.v
            type == orbitResult.type
        IN /\ type = "LEO" <=> a < 2000
           /\ type = "MEO" <=> (2000 <= a /\ a < 35786)
           /\ type = "GEO" <=> a >= 35786
           /\ (400 <= a /\ a <= 430) => type = "LEO"
           /\ (35786 - 3 <= a /\ a <= 35786 + 3) => type = "GEO"

----------------------------------------------------------------------------
(* properties of terminate *)

\* C29: after terminate() the message handler is never invoked again: a
\* batch posted before it whose computation runs afterwards delivers
\* nothing and leaves positions as they are.
C29_NoDeliveryAfterTerminate ==
    [][~onmessage => /\ positions' = positions
                     /\ delivered' = delivered
                     /\ ~onmessage']_vars

C29_BatchRanAfterTerminate ==
    /\ ~onmessage
    /\ workerTimers = <<>>
    /\ messageId > delivered

----------------------------------------------------------------------------
(* properties of the selection effects *)

\* C21: while observerLocation is null, calculateVisibility and
\* predictPasses are not invoked, visibility is null and upcomingPasses is
\* empty, whatever selections, position updates and catalog loads happened.
C21_NoObserverNoComputation ==
    observerLocation = Null =>
        /\ currentVisibility = Null
        /\ upcomingPasses = <<>>
        /\ invoked \cap {"calculateVisibility", "predictPasses"} = {}

C21_PositionsArrivedWithoutObserver ==
    /\ observerLocation = Null
    /\ selectedSatellite # Null
    /\ selectedSatellite.id \in positions.ids
    /\ trigger = "positions"

\* C22: while a satellite is selected and an observer is set, a selection
\* change and the 5 s refresh both recompute the pass predictions.
C22_PassesRecomputedOnRefresh ==
    (/\ trigger \in {"select", "refresh"}
     /\ selectedSatellite # Null
     /\ observerLocation # Null)
        => invoked \cap {"twoline2satrec", "predictPasses"} # {}

\* C23: a ground-track or pass scan that failed entirely leaves an empty
\* sequence and an error signal, so that it differs from a successful scan
\* that found nothing.
C23_FailedScanSignalled ==
    /\ trackScan = "failed" => (groundTrack = <<>> /\ error # Null)
    /\ passScan = "failed" => (upcomingPasses = <<>> /\ error # Null)

\* C30: the selected satellite is none or an object of the current catalog
\* array.
C30_SelectionInCatalog ==
    \/ selectedSatellite = Null
    \/ /\ selectedSatellite.gen = satellites.gen
       /\ selectedSatellite.id \in satellites.ids

----------------------------------------------------------------------------
(* properties of reloads *)

\* C24: the Space-Track requests sent within one minute never exceed the
\* provider's limit of 30, whatever the user and the timers do.
C24_WithinRateLimit ==
    requestsThisMinute <= RateLimitPerMinute

\* C27: a loadSatellites call that fails leaves satellites and
\* lastTleUpdate as they were and sets error; isLoading is false once a call
\* has settled, whether it succeeded or failed.
C27_FailedLoadKeepsCatalog ==
    [][/\ loadEvent' = "failed" =>
            /\ satellitesFrom' = satellitesFrom
            /\ hoursSinceUpdate' = hoursSinceUpdate
            /\ error' # Null
       /\ loadEvent' \in {"failed", "succeeded"} => ~isLoading']_vars

C27_LoadFailedAfterSuccess ==
    /\ loadEvent = "failed"
    /\ satellitesFrom # "none"
    /\ hoursSinceUpdate > 0

\* C28: once overlapping loadSatellites calls have all settled and the call
\* requested last succeeded, the catalog holds that call's result.
C28_NewestLoadWins ==
    (InFlight = 0 /\ newestLoad = "ok") => satellitesFrom = "newest"

====
